---- MODULE Spec2Model ----
(***************************************************************************)
(* hopsworks-aliases: the build-time generator of alias __init__.py files. *)
(*                                                                         *)
(* Two revisions of the script live side by side in the repository:        *)
(*   rev = "init"    src/hopsworks_aliases/__init__.py                     *)
(*   rev = "plugin"  src/hopsworks_aliases/plugin.py                       *)
(*                                                                         *)
(* A Python string is a sequence of one-character strings; the fixed text  *)
(* of an f-string template is kept as one chunk.  A pathlib.Path is the    *)
(* sequence of its parts, Path() being the empty sequence.                 *)
(***************************************************************************)
EXTENDS Integers, Sequences, FiniteSets, TLC

VARIABLES
    rev,                \* which revision of the script runs
    tree,               \* the @public declarations of the source tree, in source order
    order,              \* the order in which the modules of the tree are discovered
    pc,                 \* which call of the script has returned
    aliases_by_module,  \* collect_aliases' result (a dict, in insertion order)
    managed,            \* collect_managed's result (a dict, in insertion order)
    err,                \* whether collect_managed ended with the duplicate-alias error
    fs,                 \* the file system below the working directory
    written,            \* the files the last generate_aliases created or wrote
    disc_root,          \* the root _discover_python_modules is called with
    disc,               \* what the last _discover_python_modules did
    build,              \* the build_aliases command object
    outputs,            \* what the last get_outputs / get_output_mapping did
    lib,                \* the files of install_lib
    copied              \* the files the last install_aliases.run wrote to install_lib

vars == <<rev, tree, order, pc, aliases_by_module, managed, err, fs, written,
          disc_root, disc, build, outputs, lib, copied>>

----------------------------------------------------------------------------
(* Bounds of the model *)

MaxDecls == 2

----------------------------------------------------------------------------
(* Python values *)

None == [kind |-> "none", val |-> <<>>]
Str(s) == [kind |-> "str", val |-> s]
SetOf(S) == [kind |-> "set", val |-> S]

\* Python truthiness of None, a str and a set
Truthy(v) ==
    CASE v.kind = "none" -> FALSE
      [] v.kind = "str" -> Len(v.val) > 0
      [] v.kind = "set" -> Cardinality(v.val) > 0

\* ord() of the characters the model uses
Ord(c) ==
    CASE c = "\"" -> 34
      [] c = "." -> 46
      [] c = "/" -> 47
      [] c = "a" -> 97
      [] c = "b" -> 98
      [] c = "f" -> 102
      [] c = "g" -> 103
      [] c = "h" -> 104
      [] c = "m" -> 109
      [] c = "n" -> 110
      [] c = "v" -> 118
      [] c = "x" -> 120
      [] c = "y" -> 121
      [] OTHER -> 0

\* s < t for two Python strings
RECURSIVE StrLess(_, _)
StrLess(s, t) ==
    IF Len(s) = 0 THEN Len(t) > 0
    ELSE IF Len(t) = 0 THEN FALSE
    ELSE IF Head(s) = Head(t) THEN StrLess(Tail(s), Tail(t))
    ELSE Ord(Head(s)) < Ord(Head(t))

RECURSIVE Concat(_)
Concat(ss) == IF Len(ss) = 0 THEN <<>> ELSE Head(ss) \o Concat(Tail(ss))

\* sep.join(ss)
RECURSIVE Join(_, _)
Join(sep, ss) ==
    IF Len(ss) = 0 THEN <<>>
    ELSE IF Len(ss) = 1 THEN ss[1]
    ELSE ss[1] \o sep \o Join(sep, Tail(ss))

\* s.split(sep) for a one-character sep
RECURSIVE Split(_, _)
Split(s, sep) ==
    IF \A i \in 1..Len(s) : s[i] # sep THEN <<s>>
    ELSE LET i == CHOOSE k \in 1..Len(s) : s[k] = sep /\ \A j \in 1..(k - 1) : s[j] # sep
         IN  <<SubSeq(s, 1, i - 1)>> \o Split(SubSeq(s, i + 1, Len(s)), sep)

\* s.replace(old, new) for one-character old and new
Replace(s, old, new) == [i \in 1..Len(s) |-> IF s[i] = old THEN new ELSE s[i]]

\* s.strip("'\"")
IsQuote(c) == c = "'" \/ c = "\""

RECURSIVE LStrip(_)
LStrip(s) == IF Len(s) > 0 /\ IsQuote(Head(s)) THEN LStrip(Tail(s)) ELSE s

RECURSIVE RStrip(_)
RStrip(s) ==
    IF Len(s) > 0 /\ IsQuote(s[Len(s)]) THEN RStrip(SubSeq(s, 1, Len(s) - 1)) ELSE s

Strip(s) == RStrip(LStrip(s))

\* list.sort() of a list of strings (stable insertion sort)
RECURSIVE InsertStr(_, _)
InsertStr(x, sorted) ==
    IF Len(sorted) = 0 THEN <<x>>
    ELSE IF StrLess(x, Head(sorted)) THEN <<x>> \o sorted
    ELSE <<Head(sorted)>> \o InsertStr(x, Tail(sorted))

RECURSIVE SortStrs(_)
SortStrs(l) ==
    IF Len(l) = 0 THEN <<>> ELSE InsertStr(l[Len(l)], SortStrs(SubSeq(l, 1, Len(l) - 1)))

\* list(v): the characters of a str, the elements of a set (in some order)
RECURSIVE SetToSeq(_)
SetToSeq(S) ==
    IF S = {} THEN <<>>
    ELSE LET x == CHOOSE y \in S : TRUE IN <<x>> \o SetToSeq(S \ {x})

ListOf(v) ==
    CASE v.kind = "str" -> [i \in 1..Len(v.val) |-> <<v.val[i]>>]
      [] v.kind = "set" -> SetToSeq(v.val)
      [] OTHER -> <<>>

----------------------------------------------------------------------------
(* pathlib *)

\* Path(s): the parts of a relative path given as a string
PathOf(s) == SelectSeq(Split(s, "/"), LAMBDA p : Len(p) > 0 /\ p # <<".">>)

\* str(p)
PathStr(p) == IF Len(p) = 0 THEN <<".">> ELSE Join(<<"/">>, p)

Parent(p) == IF Len(p) = 0 THEN p ELSE SubSeq(p, 1, Len(p) - 1)

IsUnder(p, root) == Len(p) >= Len(root) /\ SubSeq(p, 1, Len(root)) = root

\* p.relative_to(root), for p under root
RelativeTo(p, root) == SubSeq(p, Len(root) + 1, Len(p))

INIT_PY == <<"_", "_", "i", "n", "i", "t", "_", "_", ".", "p", "y">>

----------------------------------------------------------------------------
(* dict, in insertion order: a sequence of [key, val] *)

DictHas(d, k) == \E i \in 1..Len(d) : d[i].key = k

DictGet(d, k) == d[CHOOSE i \in 1..Len(d) : d[i].key = k].val

DictPut(d, k, v) ==
    IF DictHas(d, k)
    THEN [i \in 1..Len(d) |-> IF d[i].key = k THEN [key |-> k, val |-> v] ELSE d[i]]
    ELSE Append(d, [key |-> k, val |-> v])

DictKeys(d) == {d[i].key : i \in 1..Len(d)}

----------------------------------------------------------------------------
(* The file system below the current working directory: files maps the     *)
(* path of each file to its content, dirs are the directories; the working *)
(* directory itself, Path(), always exists.                                *)

Exists(f, p) == Len(p) = 0 \/ p \in f.dirs \/ p \in DOMAIN f.files

Mkdir(f, d) == [f EXCEPT !.dirs = @ \cup {d}]

WriteText(f, p, content) == [f EXCEPT !.files = (p :> content) @@ @]

Touch(f, p) == IF p \in DOMAIN f.files THEN f ELSE WriteText(f, p, <<>>)

Unlink(f, p) == [f EXCEPT !.files = [q \in (DOMAIN @) \ {p} |-> @[q]]]

RECURSIVE MkdirAll(_, _)
MkdirAll(f, ds) == IF Len(ds) = 0 THEN f ELSE MkdirAll(Mkdir(f, Head(ds)), Tail(ds))

StartsWith(content, prefix) ==
    Len(content) >= Len(prefix) /\ SubSeq(content, 1, Len(prefix)) = prefix

Reverse(l) == [i \in 1..Len(l) |-> l[Len(l) + 1 - i]]

\* the header of a managed file
MAGIC_COMMENT == <<"# This file is generated. Do not edit it manually!", "\n">>

----------------------------------------------------------------------------
(* _discover_python_modules *)

PYCACHE == <<"_", "_", "p", "y", "c", "a", "c", "h", "e", "_", "_">>
BUILD == <<"b", "u", "i", "l", "d">>
DIST == <<"d", "i", "s", "t">>
VENV == <<"v", "e", "n", "v">>

\* part.startswith(".") or part in {"__pycache__", "build", "dist", "venv"}
SkippedPart(part) ==
    \/ Len(part) > 0 /\ part[1] = "."
    \/ part \in {PYCACHE, BUILD, DIST, VENV}

Skipped(rel) == \E i \in 1..Len(rel) : SkippedPart(rel[i])

\* name matches "*.py"
IsPy(name) == Len(name) >= 3 /\ SubSeq(name, Len(name) - 2, Len(name)) = <<".", "p", "y">>

\* root.rglob("*.py"), as a set
RGlobPy(f, root) ==
    {p \in DOMAIN f.files : IsUnder(p, root) /\ Len(p) > Len(root) /\ IsPy(p[Len(p)])}

\* the file py_file.read_text() and py_file.unlink() reach in plugin.py: py_file
\* was made relative to root, and a relative path is resolved from the working
\* directory
Resolved(root, cwd, py_file) == cwd \o py_file

\* one turn of the loop over rglob; raised is the FileNotFoundError of read_text
DiscoverFile(st, p, root, r) ==
    LET py_file == RelativeTo(p, root)
        target == Resolved(root, <<>>, py_file)
    IN  IF Skipped(py_file) THEN st
        ELSE IF r = "plugin" /\ py_file[Len(py_file)] = INIT_PY
        THEN IF target \notin DOMAIN st.fs.files
             THEN [st EXCEPT !.raised = TRUE, !.touched = @ \cup {target}]
             ELSE IF StartsWith(st.fs.files[target], MAGIC_COMMENT)
             THEN [st EXCEPT !.fs = Unlink(@, target), !.touched = @ \cup {target}]
             ELSE [st EXCEPT !.python_files = Append(@, py_file),
                             !.touched = @ \cup {target}]
        ELSE [st EXCEPT !.python_files = Append(@, py_file)]

RECURSIVE DiscoverFiles(_, _, _, _)
DiscoverFiles(st, found, root, r) ==
    IF Len(found) = 0 \/ st.raised THEN st
    ELSE DiscoverFiles(DiscoverFile(st, Head(found), root, r), Tail(found), root, r)

\* _discover_python_modules(root), rglob yielding the files in the order found:
\* the file system it leaves, the list it returns, the files it read or deleted
_discover_python_modules(f, found, root, r) ==
    DiscoverFiles([fs |-> f, python_files |-> <<>>, touched |-> {}, raised |-> FALSE],
                  found, root, r)

----------------------------------------------------------------------------
(* The source tree: griffe's view of the @public decorators.               *)
(* A string literal of an expression keeps its quotes, as griffe keeps it. *)

Quote(s) == <<"\"">> \o s \o <<"\"">>

\* a positional string argument, a keyword with a string, a keyword with a set
Lit(s) == [kind |-> "str", name |-> "", vkind |-> "", value |-> Quote(s), elements |-> <<>>]
KwStr(n, s) == [kind |-> "kw", name |-> n, vkind |-> "str", value |-> Quote(s), elements |-> <<>>]
KwSet(n, ss) ==
    [kind |-> "kw", name |-> n, vkind |-> "set", value |-> <<>>,
     elements |-> [i \in 1..Len(ss) |-> Quote(ss[i])]]

\* @public(args...), @public without a call, @other(args...)
Call(callable, args) == [callable_path |-> callable, call |-> TRUE, arguments |-> args]
Bare(callable) == [callable_path |-> callable, call |-> FALSE, arguments |-> <<>>]


KwNames == {"as_alias", "deprecated_by", "available_until"}

RECURSIVE ParseKwargs(_, _)
ParseKwargs(args, kwargs) ==
    IF Len(args) = 0 THEN kwargs
    ELSE LET arg == Head(args)
             upd == IF arg.kind = "kw" /\ arg.name \in KwNames
                    THEN IF arg.vkind = "str"
                         THEN [kwargs EXCEPT ![arg.name] = Str(Strip(arg.value))]
                         ELSE IF arg.vkind = "set"
                         THEN [kwargs EXCEPT ![arg.name] =
                                  SetOf({Strip(arg.elements[i]) : i \in 1..Len(arg.elements)})]
                         ELSE kwargs
                    ELSE kwargs
         IN  ParseKwargs(Tail(args), upd)

ParsePaths(args) ==
    LET lits == SelectSeq(args, LAMBDA a : a.kind = "str")
    IN  [i \in 1..Len(lits) |-> Strip(lits[i].value)]

\* _parse_public_decorator: ok = FALSE stands for the None it returns
_parse_public_decorator(decorator) ==
    LET kwargs == ParseKwargs(decorator.arguments, [k \in KwNames |-> None])
    IN  [ok |-> decorator.call,
         paths |-> IF decorator.call THEN ParsePaths(decorator.arguments) ELSE <<>>,
         as_alias |-> kwargs["as_alias"],
         deprecated_by |-> kwargs["deprecated_by"],
         available_until |-> kwargs["available_until"]]

\* decorator.callable_path.endswith(".public"): the path is kept as its dotted parts
IsPublic(decorator) ==
    LET path == decorator.callable_path
    IN  Len(path) > 1 /\ path[Len(path)] = "public"

\* the alias entry of one @public decorator of member decl.member of decl.module
AliasOf(decl) ==
    LET metadata == _parse_public_decorator(decl.decorator)
    IN  [from_module |-> decl.module, object_name |-> decl.member,
         paths |-> metadata.paths, as_alias |-> metadata.as_alias,
         deprecated_by |-> metadata.deprecated_by,
         available_until |-> metadata.available_until]

\* plugin.py reads member.hopsworks_aliases["aliases"], filled by the griffe
\* extension HopsworksAliases, which is not among the sources: it is taken to
\* record, for each @public decorator, what _parse_public_decorator parses
ExtensionAliases(decl) == AliasOf(decl)

\* the entries one decorator adds to aliases_by_module: one per target path
RECURSIVE AppendPaths(_, _, _)
AppendPaths(d, paths, alias) ==
    IF Len(paths) = 0 THEN d
    ELSE LET target == Head(paths)
             old == IF DictHas(d, target) THEN DictGet(d, target) ELSE <<>>
         IN  AppendPaths(DictPut(d, target, Append(old, alias)), Tail(paths), alias)

\* _scan_module_for_public_decorators, and plugin.py's loop over module.members
RECURSIVE _scan_module_for_public_decorators(_, _, _, _)
_scan_module_for_public_decorators(module, decls, d, r) ==
    IF Len(decls) = 0 THEN d
    ELSE LET decl == Head(decls)
             metadata == _parse_public_decorator(decl.decorator)
             alias == IF r = "plugin" THEN ExtensionAliases(decl) ELSE AliasOf(decl)
             take == /\ decl.module = module
                     /\ IsPublic(decl.decorator)
                     /\ metadata.ok
                     /\ Len(metadata.paths) > 0
         IN  _scan_module_for_public_decorators(module, Tail(decls),
                 IF take THEN AppendPaths(d, alias.paths, alias) ELSE d, r)

\* collect_aliases: the top-level packages of the discovered files are loaded,
\* and their modules are scanned in the order they were discovered
TopLevelPackages(python_files) ==
    {python_files[i][1] : i \in {j \in 1..Len(python_files) : Len(python_files[j]) > 0}}

RECURSIVE ScanModules(_, _, _, _, _)
ScanModules(modules, decls, packages, d, r) ==
    IF Len(modules) = 0 THEN d
    ELSE ScanModules(Tail(modules), decls, packages,
                     IF Head(Split(Head(modules), ".")) \in packages
                     THEN _scan_module_for_public_decorators(Head(modules), decls, d, r)
                     ELSE d, r)

collect_aliases(decls, modules, python_files, r) ==
    ScanModules(modules, decls, TopLevelPackages(python_files), <<>>, r)

----------------------------------------------------------------------------
(* collect_managed *)

\* the module of the deprecation helper
HelperModule(r) ==
    IF r = "plugin" THEN <<"hopsworks_aliases">>
    ELSE <<"hopsworks_common.internal.aliases">>

\* (x["from_module"], x["object_name"]) < (y["from_module"], y["object_name"])
AliasKeyLess(x, y) ==
    \/ StrLess(x.from_module, y.from_module)
    \/ x.from_module = y.from_module /\ StrLess(x.object_name, y.object_name)

RECURSIVE InsertAlias(_, _)
InsertAlias(x, sorted) ==
    IF Len(sorted) = 0 THEN <<x>>
    ELSE IF AliasKeyLess(x, Head(sorted)) THEN <<x>> \o sorted
    ELSE <<Head(sorted)>> \o InsertAlias(x, Tail(sorted))

UnsortedAliases(l) == l

\* alias_list.sort(key=...): stable
RECURSIVE SortAliases(_)
SortAliases(l) ==
    IF Len(l) = 0 THEN <<>>
    ELSE InsertAlias(l[Len(l)], SortAliases(SubSeq(l, 1, Len(l) - 1)))

ObjectNameOnly(alias) == alias.object_name

\* alias["as_alias"] if alias["as_alias"] else alias["object_name"]
AliasName(alias) ==
    IF Truthy(alias.as_alias) THEN alias.as_alias.val ELSE alias.object_name

OriginalRef(alias) == alias.from_module \o <<".">> \o alias.object_name

NeverDeclared(alias_name, declared_names) == FALSE

\* alias_name in declared_names
IsDeclared(alias_name, declared_names) == alias_name \in declared_names

\* hopsworks_aliases.deprecated(<names>[, available_until="..."])(<ref>)
DeprecatedRef(alias, r) ==
    LET deprecated_by_list == SortStrs(ListOf(alias.deprecated_by))
        deprecated_by_str ==
            Join(<<", ">>, [i \in 1..Len(deprecated_by_list) |-> Quote(deprecated_by_list[i])])
        available_until_str ==
            IF Truthy(alias.available_until)
            THEN <<", available_until=\"">> \o alias.available_until.val \o <<"\"">>
            ELSE <<>>
    IN  HelperModule(r) \o <<".deprecated(">> \o deprecated_by_str \o available_until_str
            \o <<")(">> \o OriginalRef(alias) \o <<")">>

\* the body of the loop over alias_list; dup is the duplicate-alias error
RECURSIVE EmitAliases(_, _, _)
EmitAliases(alias_list, st, r) ==
    IF Len(alias_list) = 0 \/ st.dup THEN st
    ELSE LET alias == Head(alias_list)
             alias_name == AliasName(alias)
             needImport == alias.from_module \notin st.imported_modules
             imported1 == st.imported_modules \cup {alias.from_module}
             content1 == IF needImport
                         THEN st.content \o <<"import ">> \o alias.from_module \o <<"\n">>
                         ELSE st.content
             deprecated == Truthy(alias.deprecated_by)
             needHelper == deprecated /\ HelperModule(r) \notin imported1
             imported2 == IF deprecated THEN imported1 \cup {HelperModule(r)} ELSE imported1
             content2 == IF needHelper
                         THEN content1 \o <<"import ">> \o HelperModule(r) \o <<"\n">>
                         ELSE content1
             original_ref == IF deprecated THEN DeprecatedRef(alias, r) ELSE OriginalRef(alias)
         IN  IF IsDeclared(alias_name, st.declared_names)
             THEN [st EXCEPT !.dup = TRUE]
             ELSE EmitAliases(Tail(alias_list),
                      [content |-> content2 \o alias_name \o <<" = ">> \o original_ref \o <<"\n">>,
                       imported_modules |-> imported2,
                       declared_names |-> st.declared_names \cup {alias_name},
                       dup |-> FALSE], r)

\* root / target_module.replace(".", "/") / "__init__.py"
ModuleFile(root, target_module) ==
    root \o PathOf(Replace(target_module, ".", "/")) \o <<INIT_PY>>

RECURSIVE ManagedFiles(_, _, _, _)
ManagedFiles(items, root, mg, r) ==
    IF Len(items) = 0 THEN [err |-> FALSE, managed |-> mg]
    ELSE LET target_module == Head(items).key
             st == EmitAliases(SortAliases(Head(items).val),
                               [content |-> MAGIC_COMMENT, imported_modules |-> {},
                                declared_names |-> {}, dup |-> FALSE], r)
         IN  IF st.dup THEN [err |-> TRUE, managed |-> <<>>]
             ELSE ManagedFiles(Tail(items), root,
                               DictPut(mg, ModuleFile(root, target_module), st.content), r)

\* collect_managed(root), once the files are discovered:
\* err is HopsworksAliasesError (plugin.py) or exit(1) (__init__.py)
collect_managed(root, decls, modules, python_files, r) ==
    ManagedFiles(collect_aliases(decls, modules, python_files, r), root, <<>>, r)

----------------------------------------------------------------------------
(* generate_aliases *)

GITIGNORE == <<".", "g", "i", "t", "i", "g", "n", "o", "r", "e">>

GITIGNORE_HEADER == <<"# Ignore generated alias files", "\n">>

\* the parents of a file that do not exist, the deepest first
RECURSIVE Missing(_, _)
Missing(f, parent) ==
    IF Exists(f, parent) THEN <<>> ELSE <<parent>> \o Missing(f, Parent(parent))

\* f"/{rel_path}"
Entry(d, destination_root) == <<"/">> \o PathStr(RelativeTo(d, destination_root))

\* plugin.py: mkdir and an empty __init__.py for each missing directory, the
\* shallowest first; a directory above destination_root adds no entry
RECURSIVE CreateDirs(_, _, _)
CreateDirs(st, ds, destination_root) ==
    IF Len(ds) = 0 THEN st
    ELSE LET d == Head(ds)
             init == Append(d, INIT_PY)
         IN  CreateDirs(
                 [st EXCEPT !.fs = Touch(Mkdir(st.fs, d), init),
                            !.written = @ \cup {init},
                            !.entries = IF IsUnder(d, destination_root)
                                        THEN Append(@, Entry(d, destination_root))
                                        ELSE @],
                 Tail(ds), destination_root)

\* one turn of the loop over managed.items(); raised is the ValueError of
\* relative_to in __init__.py, which ends generate_aliases
GenerateFile(st, item, source_root, destination_root, r) ==
    LET filepath == destination_root \o RelativeTo(item.key, source_root)
        missing == Missing(st.fs, Parent(filepath))
    IN  IF r = "plugin"
        THEN LET made == CreateDirs(st, Reverse(missing), destination_root)
             IN  [made EXCEPT !.fs = WriteText(@, filepath, item.val),
                              !.written = @ \cup {filepath}]
        ELSE IF \E i \in 1..Len(missing) : ~IsUnder(missing[i], destination_root)
        THEN [st EXCEPT !.raised = TRUE]
        ELSE [st EXCEPT !.fs = WriteText(MkdirAll(@, missing), filepath, item.val),
                        !.written = @ \cup {filepath},
                        !.entries = @ \o [i \in 1..Len(missing) |->
                                             Entry(missing[i], destination_root)]]

RECURSIVE GenerateFiles(_, _, _, _, _)
GenerateFiles(st, items, source_root, destination_root, r) ==
    IF Len(items) = 0 \/ st.raised THEN st
    ELSE GenerateFiles(GenerateFile(st, Head(items), source_root, destination_root, r),
                       Tail(items), source_root, destination_root, r)

\* "".join(str(x) + "\n" for x in sorted(gitignore_entries))
GitignoreLines(entries) ==
    LET sorted == SortStrs(entries)
    IN  Concat([i \in 1..Len(sorted) |-> sorted[i] \o <<"\n">>])

\* the single .gitignore at the root
WriteGitignore(st, destination_root) ==
    LET gitignore_path == Append(destination_root, GITIGNORE)
        gitignore_content ==
            IF gitignore_path \in DOMAIN st.fs.files THEN st.fs.files[gitignore_path]
            ELSE GITIGNORE_HEADER
    IN  IF Len(st.entries) = 0 \/ st.raised THEN st
        ELSE [st EXCEPT !.fs = WriteText(@, gitignore_path,
                                         gitignore_content \o GitignoreLines(st.entries)),
                        !.written = @ \cup {gitignore_path}]

\* generate_aliases(source_root, destination_root), after collect_managed returned mg:
\* the file system it leaves, the files it created or wrote, whether it raised
generate_aliases(f, mg, source_root, destination_root, r) ==
    WriteGitignore(
        GenerateFiles([fs |-> f, entries |-> <<>>, written |-> {}, raised |-> FALSE],
                      mg, source_root, destination_root, r),
        destination_root)

----------------------------------------------------------------------------
(* The inputs of the model *)

Revs == {"init", "plugin"}

\* the names the declarations are built from
pkg_a == <<"a">>
mod_b == <<"b">>
mod_a_b == <<"a", ".", "b">>
obj_f == <<"f">>
obj_g == <<"g">>
name_h == <<"h">>
new_m == <<"m">>
new_n == <<"n">>
new_nm == <<"n", "m">>
until_v == <<"v">>
to_x == <<"x">>
to_x_y == <<"x", ".", "y">>

Modules == {mod_b, mod_a_b}
Members == {obj_f, obj_g}

PublicPath == <<"hopsworks_apigen", "public">>

Perms(S) == {p \in [1..Cardinality(S) -> S] : \A i, j \in 1..Cardinality(S) : p[i] = p[j] => i = j}

\* the orders in which the modules may be discovered
Orders == Perms(Modules)

\* source text of a file that no generator wrote
SOURCE == <<"def f(): ...", "\n">>

py(name) == name \o <<".", "p", "y">>

BUILD_TEMP == <<BUILD, <<"t", "e", "m", "p">>>>
ALIASES == <<"a", "l", "i", "a", "s", "e", "s">>

\* a checkout: package b, package a with module a.b, x/__init__.py left by an
\* earlier in-place generation, and the build directory of an earlier build
FS0 ==
    [files |-> (<<pkg_a, INIT_PY>> :> SOURCE) @@ (<<pkg_a, py(mod_b)>> :> SOURCE)
               @@ (<<mod_b, INIT_PY>> :> SOURCE) @@ (<<to_x, INIT_PY>> :> MAGIC_COMMENT),
     dirs |-> {<<pkg_a>>, <<mod_b>>, <<to_x>>, <<BUILD>>, BUILD_TEMP}]

\* decorators that differ in their target paths and alias names
PathDecorators ==
    {Call(PublicPath, <<Lit(to_x)>>),
     Call(PublicPath, <<Lit(to_x), Lit(to_x)>>),
     Call(PublicPath, <<Lit(to_x), Lit(to_x_y)>>),
     Call(PublicPath, <<Lit(to_x_y), KwStr("as_alias", obj_f)>>),
     Call(PublicPath, <<Lit(to_x), KwStr("as_alias", name_h)>>),
     Call(PublicPath, <<Lit(to_x), KwStr("as_alias", <<>>)>>),
     Bare(PublicPath)}

\* decorators that differ in their deprecation metadata
DeprecationDecorators ==
    {Call(PublicPath, <<Lit(to_x), KwSet("deprecated_by", <<new_n, new_m>>), KwStr("available_until", until_v)>>),
     Call(PublicPath, <<Lit(to_x), KwSet("deprecated_by", <<new_n>>)>>),
     Call(PublicPath, <<Lit(to_x), KwSet("deprecated_by", <<>>), KwStr("available_until", until_v)>>),
     Call(PublicPath, <<Lit(to_x), KwStr("deprecated_by", new_n)>>),
     Call(PublicPath, <<Lit(to_x), KwStr("deprecated_by", new_nm)>>),
     Call(PublicPath, <<Lit(to_x), KwStr("deprecated_by", new_nm), KwStr("available_until", until_v)>>),
     Call(PublicPath, <<Lit(to_x), KwStr("deprecated_by", new_n), KwStr("available_until", <<>>)>>),
     Call(PublicPath, <<Lit(to_x), KwStr("deprecated_by", <<>>)>>),
     Call(PublicPath, <<Lit(to_x), KwStr("available_until", until_v)>>),
     Call(PublicPath, <<KwStr("deprecated_by", new_n)>>),
     Call(<<"functools", "cache">>, <<Lit(to_x)>>)}

Decls(decorators) == [module : Modules, member : Members, decorator : decorators]

ModuleRank(mod) == IF mod = mod_a_b THEN 1 ELSE 2

\* the declarations of a tree are listed module by module, and the decorators
\* of one member follow each other
WellFormed(t) ==
    /\ \A i \in 1..(Len(t) - 1) : ModuleRank(t[i].module) <= ModuleRank(t[i + 1].module)
    /\ \A i, j, k \in 1..Len(t) :
           (i < j /\ j < k /\ t[i].module = t[k].module /\ t[i].member = t[k].member)
               => (t[j].module = t[i].module /\ t[j].member = t[i].member)

Trees(decorators, len) ==
    {t \in UNION {[1..k -> Decls(decorators)] : k \in 0..len} : WellFormed(t)}

----------------------------------------------------------------------------
(* Calls of collect_aliases, collect_managed and generate_aliases *)

NoDiscovery == [python_files |-> <<>>, touched |-> {}, raised |-> FALSE]
NoBuild == [initialized |-> FALSE, finalized |-> FALSE, editable_mode |-> FALSE,
            aliases_dir |-> <<>>, has_managed |-> FALSE, managed |-> <<>>]
NotCalled == [called |-> FALSE, raised |-> FALSE, paths |-> <<>>]
NoOutputs == [get_outputs |-> NotCalled, get_output_mapping |-> NotCalled]

\* the destination roots generate_aliases is called with: in place, and build_temp/aliases
Destinations == {<<>>, Append(BUILD_TEMP, ALIASES)}

InitWith(decorators) ==
    /\ rev \in Revs
    /\ tree \in Trees(decorators, MaxDecls)
    /\ order \in Orders
    /\ pc = "start"
    /\ aliases_by_module = <<>>
    /\ managed = <<>>
    /\ err = FALSE
    /\ fs = FS0
    /\ written = {}
    /\ disc_root = <<>>
    /\ disc = NoDiscovery
    /\ build = NoBuild
    /\ outputs = NoOutputs
    /\ lib = <<>>
    /\ copied = {}

InitManaged == InitWith(PathDecorators)

InitDeprecation == InitWith(DeprecationDecorators)

\* the files rglob yields, in the order it yields them
Found(fl, rt) == SetToSeq(RGlobPy(fl, rt))

\* collect_aliases(Path())
CollectAliases ==
    /\ pc = "start"
    /\ \E d \in {_discover_python_modules(fs, Found(fs, <<>>), <<>>, rev)} :
           /\ fs' = d.fs
           /\ aliases_by_module' = collect_aliases(tree, order, d.python_files, rev)
    /\ pc' = "collected"
    /\ UNCHANGED <<rev, tree, order, managed, err, written, disc_root, disc, build,
                   outputs, lib, copied>>

\* collect_managed(Path())
CollectManaged ==
    /\ pc = "start"
    /\ \E d \in {_discover_python_modules(fs, Found(fs, <<>>), <<>>, rev)} :
           /\ fs' = d.fs
           /\ aliases_by_module' = collect_aliases(tree, order, d.python_files, rev)
    /\ \E res \in {ManagedFiles(aliases_by_module', <<>>, <<>>, rev)} :
           /\ managed' = res.managed
           /\ err' = res.err
    /\ pc' = "done"
    /\ UNCHANGED <<rev, tree, order, written, disc_root, disc, build, outputs, lib, copied>>

\* generate_aliases(Path(), destination_root)
GenerateAliases ==
    /\ pc = "start"
    /\ \E d \in {_discover_python_modules(fs, Found(fs, <<>>), <<>>, rev)} :
           /\ aliases_by_module' = collect_aliases(tree, order, d.python_files, rev)
           /\ \E res \in {ManagedFiles(aliases_by_module', <<>>, <<>>, rev)} :
                  /\ managed' = res.managed
                  /\ err' = res.err
                  /\ \E destination_root \in Destinations :
                         \E gen \in {generate_aliases(d.fs, res.managed, <<>>,
                                                      destination_root, rev)} :
                             /\ fs' = IF res.err THEN d.fs ELSE gen.fs
                             /\ written' = IF res.err THEN {} ELSE gen.written
    /\ pc' = "generated"
    /\ UNCHANGED <<rev, tree, order, disc_root, disc, build, outputs, lib, copied>>

NextManaged == CollectAliases \/ CollectManaged \/ GenerateAliases

SpecManaged == InitManaged /\ [][NextManaged]_vars

SpecDeprecation == InitDeprecation /\ [][NextManaged]_vars

----------------------------------------------------------------------------
(* What the claims say of a managed file *)

Returned == pc \in {"done", "generated"}

Lines(content) == Split(content, "\n")

IsAssignment(line) == \E i \in 1..Len(line) : line[i] = " = "

AssignmentLines(content) ==
    LET ls == Lines(content) IN {i \in 1..Len(ls) : IsAssignment(ls[i])}

\* as_alias when it is set, the decorated object's own name otherwise
ClaimedName(alias) ==
    IF alias.as_alias.kind = "str" /\ alias.as_alias.val # <<>>
    THEN alias.as_alias.val ELSE alias.object_name

ClaimedRef(alias) == alias.from_module \o <<".">> \o alias.object_name

EndsWith(s, suffix) ==
    Len(s) >= Len(suffix) /\ SubSeq(s, Len(s) - Len(suffix) + 1, Len(s)) = suffix

\* line is '<alias_name> = <reference to from_module.object_name>'
AssignsAlias(line, alias) ==
    LET lhs == ClaimedName(alias) \o <<" = ">>
        rhs == SubSeq(line, Len(lhs) + 1, Len(line))
    IN  /\ StartsWith(line, lhs)
        /\ \/ rhs = ClaimedRef(alias)
           \/ EndsWith(rhs, <<")(">> \o ClaimedRef(alias) \o <<")">>)

\* root/<target path with '.' replaced by '/'>/__init__.py
ClaimedFile(target) == Split(target, ".") \o <<INIT_PY>>

\* the file of a target has the header, one assignment line for each alias of
\* the target, and no other assignment line
FileMatches(content, alias_list) ==
    LET ls == Lines(content)
    IN  /\ StartsWith(content, MAGIC_COMMENT)
        /\ \A i \in 1..Len(alias_list) :
               Cardinality({k \in AssignmentLines(content) : AssignsAlias(ls[k], alias_list[i])}) = 1
        /\ \A k \in AssignmentLines(content) :
               \E i \in 1..Len(alias_list) : AssignsAlias(ls[k], alias_list[i])
        /\ Cardinality(AssignmentLines(content)) = Len(alias_list)

ManagedMatches ==
    /\ Len(managed) = Len(aliases_by_module)
    /\ DictKeys(managed) = {ClaimedFile(aliases_by_module[i].key) : i \in 1..Len(aliases_by_module)}
    /\ \A i \in 1..Len(aliases_by_module) :
           /\ DictHas(managed, ClaimedFile(aliases_by_module[i].key))
           /\ FileMatches(DictGet(managed, ClaimedFile(aliases_by_module[i].key)),
                          aliases_by_module[i].val)

\* two aliases collected for the same target module resolve to the same alias name
DuplicateNames ==
    \E i \in 1..Len(aliases_by_module) :
        LET alias_list == aliases_by_module[i].val
        IN  \E j, k \in 1..Len(alias_list) :
                j < k /\ ClaimedName(alias_list[j]) = ClaimedName(alias_list[k])

\* C1, as stated: for any set of collected aliases collect_managed returns one
\* managed file per target module path, keyed by the path of its __init__.py,
\* holding the header and exactly the assignment lines of the target's aliases.
C1_AsStated == Returned => (~err /\ ManagedMatches)

\* C1, amended: for any set of collected aliases in which no two aliases of one
\* target module resolve to the same alias name, collect_managed returns one
\* managed file per target module path, keyed by the path of its __init__.py,
\* holding the header and exactly the assignment lines of the target's aliases.
C1_ManagedFiles == (Returned /\ ~DuplicateNames) => (~err /\ ManagedMatches)

C1_Witness ==
    /\ pc = "done"
    /\ ~err
    /\ Len(managed) = 2
    /\ \E i \in 1..Len(aliases_by_module) :
           /\ Len(aliases_by_module[i].val) = 2
           /\ \E j \in 1..2 : Truthy(aliases_by_module[i].val[j].as_alias)

\* C2: collect_managed ends with the duplicate-alias error if and only if two
\* alias entries collected for the same target module resolve to the same
\* alias name (one decorator naming a target twice included); the same name in
\* two different target modules is no error.
C2_DuplicateError == Returned => (err <=> DuplicateNames)

\* one decorator that lists the same target path twice
C2_Witness ==
    /\ pc = "done"
    /\ err
    /\ Len(tree) = 1
    /\ Len(aliases_by_module) = 1
    /\ Len(aliases_by_module[1].val) = 2

Contents(mg) == [k \in DictKeys(mg) |-> DictGet(mg, k)]

\* a call of collect_managed or generate_aliases returns and writes what it
\* would have, had the modules been discovered in any other order
SameForEveryOrder ==
    (pc' \in {"done", "generated"} /\ pc' # pc) =>
        LET d == _discover_python_modules(fs, Found(fs, <<>>), <<>>, rev)
        IN  \A o \in Orders :
                LET res == collect_managed(<<>>, tree, o, d.python_files, rev)
                IN  /\ res.err = err'
                    /\ Contents(res.managed) = Contents(managed')
                    /\ (pc' = "generated" /\ ~err') =>
                           \E destination_root \in Destinations :
                               generate_aliases(d.fs, res.managed, <<>>,
                                                destination_root, rev).fs = fs'

\* C3: for a fixed set of @public declarations, the content of every managed
\* file that collect_managed returns and the text generate_aliases appends to
\* .gitignore are the same for every order in which the modules are discovered.
C3_Deterministic == [][SameForEveryOrder]_vars

\* aliases of two modules were collected for one target in an order that is
\* not the sorted one, and a .gitignore was written
C3_Witness ==
    /\ pc = "generated"
    /\ ~err
    /\ \E i \in 1..Len(aliases_by_module) :
           LET alias_list == aliases_by_module[i].val
           IN  \E j \in 1..(Len(alias_list) - 1) : AliasKeyLess(alias_list[j + 1], alias_list[j])
    /\ \E p \in written : p[Len(p)] = GITIGNORE

----------------------------------------------------------------------------
(* What the claims say of the deprecation wrapper *)

\* the replacement names of deprecated_by, given as one string or as a set
ClaimedReplacements(alias) ==
    CASE alias.deprecated_by.kind = "str" ->
             IF alias.deprecated_by.val = <<>> THEN {} ELSE {alias.deprecated_by.val}
      [] alias.deprecated_by.kind = "set" -> alias.deprecated_by.val
      [] OTHER -> {}

ClaimedRhs(alias, r) ==
    LET names == SortStrs(SetToSeq(ClaimedReplacements(alias)))
        args == Join(<<", ">>, [i \in 1..Len(names) |-> <<"\"">> \o names[i] \o <<"\"">>])
        until == IF alias.available_until.kind = "str" /\ alias.available_until.val # <<>>
                 THEN <<", available_until=\"">> \o alias.available_until.val \o <<"\"">>
                 ELSE <<>>
    IN  IF ClaimedReplacements(alias) = {} THEN ClaimedRef(alias)
        ELSE HelperModule(r) \o <<".deprecated(">> \o args \o until \o <<")(">>
                 \o ClaimedRef(alias) \o <<")">>

\* C4: the right-hand side of an alias is wrapped in deprecated(...)(ref) if and
\* only if its deprecated_by is non-empty; the arguments are the replacement
\* names, each once, double-quoted and sorted, whether deprecated_by was given
\* as one string or as a set; available_until="..." is appended if and only if
\* it is set; with an empty deprecated_by the plain reference is emitted.
C4_AsStated ==
    (Returned /\ ~err) =>
        \A i \in 1..Len(aliases_by_module) :
            LET alias_list == aliases_by_module[i].val
                ls == Lines(DictGet(managed, ClaimedFile(aliases_by_module[i].key)))
            IN  \A j \in 1..Len(alias_list) :
                    \E k \in 1..Len(ls) :
                        ls[k] = ClaimedName(alias_list[j]) \o <<" = ">>
                                    \o ClaimedRhs(alias_list[j], rev)

\* C4 with deprecated_by given as a set, or as a string of one character
C4_SetsOnly ==
    (Returned /\ ~err) =>
        \A i \in 1..Len(aliases_by_module) :
            LET alias_list == aliases_by_module[i].val
                ls == Lines(DictGet(managed, ClaimedFile(aliases_by_module[i].key)))
            IN  \A j \in 1..Len(alias_list) :
                    (alias_list[j].deprecated_by.kind = "str" =>
                         Len(alias_list[j].deprecated_by.val) <= 1)
                        => \E k \in 1..Len(ls) :
                               ls[k] = ClaimedName(alias_list[j]) \o <<" = ">>
                                           \o ClaimedRhs(alias_list[j], rev)

----------------------------------------------------------------------------
(* Calls of _discover_python_modules *)

SRC == <<"s", "r", "c">>
PKG == <<"p", "k", "g">>
HIDDEN == <<".", "v", "e", "n", "v">>

\* the files a tree may hold below the root, relative to the root
RootFiles == {<<PKG, INIT_PY>>, <<PKG, py(mod_b)>>, <<BUILD, py(mod_b)>>, <<HIDDEN, INIT_PY>>}

\* the directories of a set of files
DirsOf(paths) == UNION {{SubSeq(p, 1, k) : k \in 1..(Len(p) - 1)} : p \in paths}

\* the roots _discover_python_modules is called with: Path() and Path("src")
Roots == {<<>>, <<SRC>>}

\* the file systems: some of RootFiles below the root and, when the root is not
\* the working directory, maybe pkg/__init__.py in the working directory too;
\* each __init__.py is a source file or a managed file
DiscoverFileSystems(rt) ==
    LET outside == IF rt = <<>> THEN {{}} ELSE {{}, {<<PKG, INIT_PY>>}}
    IN  UNION {UNION {
            {[files |-> c, dirs |-> DirsOf(DOMAIN c)] :
                c \in [{rt \o p : p \in below} \cup out ->
                          {SOURCE, MAGIC_COMMENT \o <<"import ", "b", "\n">>}]}
            : out \in outside} : below \in SUBSET RootFiles}

InitDiscover ==
    /\ rev \in Revs
    /\ disc_root \in Roots
    /\ fs \in {fl \in DiscoverFileSystems(disc_root) :
                  \A p \in DOMAIN fl.files :
                      p[Len(p)] # INIT_PY => fl.files[p] = SOURCE}
    /\ pc = "start"
    /\ tree = <<>>
    /\ order = <<>>
    /\ aliases_by_module = <<>>
    /\ managed = <<>>
    /\ err = FALSE
    /\ written = {}
    /\ disc = NoDiscovery
    /\ build = NoBuild
    /\ outputs = NoOutputs
    /\ lib = <<>>
    /\ copied = {}

\* _discover_python_modules(disc_root), rglob yielding the files in any order
Discover ==
    /\ pc = "start"
    /\ \E found \in Perms(RGlobPy(fs, disc_root)) :
           \E d \in {_discover_python_modules(fs, found, disc_root, rev)} :
               /\ fs' = d.fs
               /\ disc' = [python_files |-> d.python_files, touched |-> d.touched,
                           raised |-> d.raised]
    /\ pc' = "discovered"
    /\ UNCHANGED <<rev, tree, order, aliases_by_module, managed, err, written, disc_root,
                   build, outputs, lib, copied>>

NextDiscover == Discover

SpecDiscover == InitDiscover /\ [][NextDiscover]_vars

Occurrences(l, e) == Cardinality({i \in 1..Len(l) : l[i] = e})

Untouched(p) == p \in DOMAIN fs'.files /\ fs'.files[p] = fs.files[p]

\* what C8 says of one call of _discover_python_modules
PartitionsRoot ==
    (pc = "start" /\ pc' = "discovered") =>
        /\ ~disc'.raised
        /\ \A p \in RGlobPy(fs, disc_root) :
               LET rel == RelativeTo(p, disc_root)
               IN  IF Skipped(rel)
                   THEN Occurrences(disc'.python_files, rel) = 0 /\ Untouched(p)
                   ELSE IF /\ rev = "plugin"
                           /\ rel[Len(rel)] = INIT_PY
                           /\ StartsWith(fs.files[p], MAGIC_COMMENT)
                   THEN Occurrences(disc'.python_files, rel) = 0 /\ p \notin DOMAIN fs'.files
                   ELSE Occurrences(disc'.python_files, rel) = 1 /\ Untouched(p)
        /\ \A i \in 1..Len(disc'.python_files) :
               disc_root \o disc'.python_files[i] \in RGlobPy(fs, disc_root)
        /\ \A p \in disc'.touched : IsUnder(p, disc_root)
        /\ \A p \in DOMAIN fs.files : ~IsUnder(p, disc_root) => Untouched(p)

\* C8: _discover_python_modules(root) partitions the .py files under root, for
\* any root, the working directory or not: a file below a hidden or build
\* directory is not returned and is left alone, a managed __init__.py is deleted
\* and not returned (plugin.py), every other file is returned once and left
\* alone, and no file outside root is read or deleted.
C8_AsStated == [][PartitionsRoot]_vars

\* C8 holds of the calls whose root is the working directory
C8_WorkingDirectory == [][disc_root = <<>> => PartitionsRoot]_vars

----------------------------------------------------------------------------
(* The setuptools commands build_aliases and install_aliases *)

\* self.aliases_dir / filepath.relative_to(Path()) for each file of a managed dict
OutputPaths(mg, aliases_dir) ==
    [i \in 1..Len(mg) |-> aliases_dir \o RelativeTo(mg[i].key, <<>>)]

\* build_aliases.get_outputs: plugin.py reads self.managed, which only run sets
\* (raised is the AttributeError); __init__.py calls collect_managed (raised is
\* its exit(1))
get_outputs(bld, f, decls, modules, r) ==
    IF r = "plugin"
    THEN IF bld.has_managed
         THEN [called |-> TRUE, raised |-> FALSE,
               paths |-> OutputPaths(bld.managed, bld.aliases_dir)]
         ELSE [called |-> TRUE, raised |-> TRUE, paths |-> <<>>]
    ELSE LET d == _discover_python_modules(f, Found(f, <<>>), <<>>, r)
             res == collect_managed(<<>>, decls, modules, d.python_files, r)
         IN  [called |-> TRUE, raised |-> res.err,
              paths |-> OutputPaths(res.managed, bld.aliases_dir)]

\* build_aliases.get_output_mapping: the keys of the mapping it returns
get_output_mapping(bld, f, decls, modules, r) ==
    LET mapping == get_outputs(bld, f, decls, modules, r)
    IN  [mapping EXCEPT !.paths = SetToSeq({mapping.paths[i] : i \in 1..Len(mapping.paths)})]

\* the declarations of the packages that are built
to_a_x == <<"a", ".", "x">>

Decl(mod, member, decorator) == [module |-> mod, member |-> member, decorator |-> decorator]

BuildTrees ==
    {<<>>,
     <<Decl(mod_b, obj_f, Call(PublicPath, <<Lit(to_x)>>))>>,
     <<Decl(mod_a_b, obj_g, Call(PublicPath, <<Lit(to_x_y)>>)),
       Decl(mod_b, obj_f, Call(PublicPath, <<Lit(to_x_y)>>))>>,
     <<Decl(mod_b, obj_f, Call(PublicPath, <<Lit(to_x), Lit(to_x)>>))>>,
     <<Decl(mod_a_b, obj_f, Call(PublicPath, <<Lit(to_a_x)>>))>>}

\* a fresh checkout: no build directory, nothing generated
FSFresh ==
    [files |-> (<<pkg_a, INIT_PY>> :> SOURCE) @@ (<<pkg_a, py(mod_b)>> :> SOURCE)
               @@ (<<mod_b, INIT_PY>> :> SOURCE),
     dirs |-> {<<pkg_a>>, <<mod_b>>}]

\* install_lib after the packages were installed
LIB0 ==
    (<<pkg_a, INIT_PY>> :> SOURCE) @@ (<<pkg_a, py(mod_b)>> :> SOURCE)
        @@ (<<mod_b, INIT_PY>> :> SOURCE)

InitBuild ==
    /\ rev \in Revs
    /\ tree \in BuildTrees
    /\ order \in Orders
    /\ fs \in {FS0, FSFresh}
    /\ pc = "start"
    /\ aliases_by_module = <<>>
    /\ managed = <<>>
    /\ err = FALSE
    /\ written = {}
    /\ disc_root = <<>>
    /\ disc = NoDiscovery
    /\ build = NoBuild
    /\ outputs = NoOutputs
    /\ lib = LIB0
    /\ copied = {}

\* build_aliases.initialize_options
InitializeOptions ==
    /\ ~build.initialized
    /\ build' = [build EXCEPT !.initialized = TRUE, !.finalized = FALSE,
                              !.editable_mode = FALSE, !.aliases_dir = <<>>]
    /\ UNCHANGED <<rev, tree, order, pc, aliases_by_module, managed, err, fs, written,
                   disc_root, disc, outputs, lib, copied>>

\* setuptools' editable_wheel sets editable_mode on the command before it is finalized
SetEditableMode ==
    /\ build.initialized
    /\ ~build.finalized
    /\ ~build.editable_mode
    /\ build' = [build EXCEPT !.editable_mode = TRUE]
    /\ UNCHANGED <<rev, tree, order, pc, aliases_by_module, managed, err, fs, written,
                   disc_root, disc, outputs, lib, copied>>

\* build_aliases.finalize_options
FinalizeOptions ==
    /\ build.initialized
    /\ ~build.finalized
    /\ build' = [build EXCEPT !.finalized = TRUE,
                              !.aliases_dir = IF build.editable_mode THEN <<>>
                                              ELSE Append(BUILD_TEMP, ALIASES)]
    /\ UNCHANGED <<rev, tree, order, pc, aliases_by_module, managed, err, fs, written,
                   disc_root, disc, outputs, lib, copied>>

\* build_aliases.run
Run ==
    /\ build.finalized
    /\ \E d \in {_discover_python_modules(fs, Found(fs, <<>>), <<>>, rev)} :
           /\ aliases_by_module' = collect_aliases(tree, order, d.python_files, rev)
           /\ \E res \in {ManagedFiles(aliases_by_module', <<>>, <<>>, rev)} :
                  \E gen \in {generate_aliases(d.fs, res.managed, <<>>, build.aliases_dir, rev)} :
                      /\ managed' = res.managed
                      /\ err' = (res.err \/ gen.raised)
                      /\ fs' = IF res.err THEN d.fs ELSE gen.fs
                      /\ written' = IF res.err THEN {} ELSE gen.written
                      /\ build' = IF rev = "plugin" /\ ~res.err /\ ~gen.raised
                                  THEN [build EXCEPT !.has_managed = TRUE,
                                                     !.managed = res.managed]
                                  ELSE build
    /\ pc' = IF err' THEN "failed" ELSE "ran"
    /\ outputs' = NoOutputs
    /\ UNCHANGED <<rev, tree, order, disc_root, disc, lib, copied>>

\* build_aliases.get_outputs
GetOutputs ==
    /\ build.finalized
    /\ outputs' = [outputs EXCEPT !.get_outputs = get_outputs(build, fs, tree, order, rev)]
    /\ UNCHANGED <<rev, tree, order, pc, aliases_by_module, managed, err, fs, written,
                   disc_root, disc, build, lib, copied>>

\* build_aliases.get_output_mapping
GetOutputMapping ==
    /\ build.finalized
    /\ outputs' = [outputs EXCEPT
                       !.get_output_mapping = get_output_mapping(build, fs, tree, order, rev)]
    /\ UNCHANGED <<rev, tree, order, pc, aliases_by_module, managed, err, fs, written,
                   disc_root, disc, build, lib, copied>>

\* install_aliases.run, its aliases_dir taken from build_aliases: every *.py
\* below aliases_dir is copied to the same relative path of install_lib
InstallRun ==
    /\ build.finalized
    /\ IF ~Exists(fs, build.aliases_dir)
       THEN lib' = lib /\ copied' = {}
       ELSE \E rels \in {{RelativeTo(p, build.aliases_dir) : p \in RGlobPy(fs, build.aliases_dir)}} :
                /\ lib' = [q \in (DOMAIN lib) \cup rels |->
                              IF q \in rels THEN fs.files[build.aliases_dir \o q] ELSE lib[q]]
                /\ copied' = rels
    /\ UNCHANGED <<rev, tree, order, pc, aliases_by_module, managed, err, fs, written,
                   disc_root, disc, build, outputs>>

NextBuild ==
    \/ InitializeOptions
    \/ SetEditableMode
    \/ FinalizeOptions
    \/ Run
    \/ GetOutputs
    \/ GetOutputMapping
    \/ InstallRun

SpecBuild == InitBuild /\ [][NextBuild]_vars

----------------------------------------------------------------------------
(* What the claims say of the commands *)

Listed(result) == {result.paths[i] : i \in 1..Len(result.paths)}

\* C5: after build_aliases.run, every file that run created or wrote (managed
\* files, the empty __init__.py of each new directory, .gitignore) is listed by
\* get_outputs, every path get_outputs lists exists on disk, and
\* get_output_mapping has exactly the same paths as keys.
C5_AsStated ==
    (pc = "ran" /\ outputs.get_outputs.called) =>
        /\ ~outputs.get_outputs.raised
        /\ written \subseteq Listed(outputs.get_outputs)
        /\ Listed(outputs.get_outputs) \subseteq DOMAIN fs.files
        /\ outputs.get_output_mapping.called =>
               Listed(outputs.get_output_mapping) = Listed(outputs.get_outputs)

\* C5 without the files that are not managed files: after run, the managed
\* files run wrote are the paths get_outputs lists, and they exist
C5_ManagedOnly ==
    (pc = "ran" /\ outputs.get_outputs.called) =>
        /\ ~outputs.get_outputs.raised
        /\ {p \in written : p[Len(p)] = INIT_PY /\ Len(fs.files[p]) > 0}
               = Listed(outputs.get_outputs)
        /\ Listed(outputs.get_outputs) \subseteq DOMAIN fs.files
        /\ outputs.get_output_mapping.called =>
               Listed(outputs.get_output_mapping) = Listed(outputs.get_outputs)

\* the declarations hold no duplicate alias: collect_managed(Path()) returns
Collectable ==
    LET d == _discover_python_modules(fs, Found(fs, <<>>), <<>>, rev)
    IN  ~collect_managed(<<>>, tree, order, d.python_files, rev).err

\* a call of get_outputs or get_output_mapping returns, and leaves the files alone
ReturnsAndKeepsFiles(method) ==
    (Collectable /\ outputs'[method] # outputs[method] /\ outputs'[method].called) =>
        (~outputs'[method].raised /\ fs' = fs)

\* C6: in any state of the command after initialize_options and
\* finalize_options, before run was ever called included, get_outputs and
\* get_output_mapping return the managed output paths without raising and
\* without creating, modifying or deleting a file (of declarations that
\* collect_managed accepts).
C6_AsStated ==
    [][ReturnsAndKeepsFiles("get_outputs") /\ ReturnsAndKeepsFiles("get_output_mapping")]_vars

\* the generated alias files build_aliases reports, relative to aliases_dir
Reported ==
    LET result == get_outputs(build, fs, tree, order, rev)
    IN  IF result.raised THEN {}
        ELSE {RelativeTo(p, build.aliases_dir) : p \in Listed(result)}

\* what C7 says of one call of install_aliases.run
CopiesGeneratedOnly ==
    (lib' # lib \/ copied' # copied) =>
        IF ~Exists(fs, build.aliases_dir) THEN lib' = lib
        ELSE /\ copied' = Reported
             /\ \A q \in copied' : lib'[q] = fs.files[build.aliases_dir \o q]
             /\ \A q \in (DOMAIN lib) \ Reported : lib'[q] = lib[q]
             /\ DOMAIN lib' = (DOMAIN lib) \cup Reported

\* C7: install_aliases.run copies the generated alias files that build_aliases
\* reports from aliases_dir to install_lib, each to the same relative path with
\* the same content, and nothing else, in editable and non-editable mode alike;
\* when aliases_dir does not exist, install_lib is left unchanged.
C7_AsStated == [][CopiesGeneratedOnly]_vars

====
